---- MODULE Spec2Model ----
(***************************************************************************)
(* SystemOSC: the collect -> send monitoring loop of src/index.ts (OSC over *)
(* UDP) and of its HTTP POST variant, as a state machine over the Node      *)
(* event loop.  One action is one event-loop task: a React effect, a timer  *)
(* tick, the settlement of an awaited host query together with the          *)
(* continuation it resumes, a port event, or a signal handler.              *)
(***************************************************************************)
EXTENDS Integers, Sequences, FiniteSets, TLC

\* ---------------------------------------------------------------- bounds
\* cycles (monitor invocations) the model lets the process start
MaxCycles == 2
\* largest core count a host query reports
MaxCores == 2
\* 'error' events the port may have pending at once
MaxErrors == 1
\* fetches of the menu bar app that may be outstanding at once
MaxFetches == 2
\* requests the test server receives
MaxRequests == 2

VARIABLES
    variant,        \* "osc" (src/index.ts) or "http" (the HTTP POST variant)
    env,            \* process.env: the variables the configuration reads
    httpResponse,   \* the latest answer of the HTTP JSON endpoint
    menuBar,        \* the menu bar app (menubar/SystemOSCMenu.swift)
    service,        \* the LaunchAgents and a run of scripts/service.sh
    testServer,     \* the requests of the test server (src/test-server.ts)
    proc,           \* "starting" | "running" | "exited"
    effectRan,      \* React.useEffect body has run
    isMounted,      \* let isMounted of the effect closure
    timerArmed,     \* the setInterval handle is active
    oscPort,        \* "null" | "opening" | "ready" | "closed"
    openCalls,      \* number of oscPort.open() calls
    closeCalls,     \* number of oscPort.close() calls
    pendingErrors,  \* 'error' events the port still has to emit
    runs,           \* the monitor invocations: [pc, load, outcome]
    started,        \* number of monitor invocations so far
    cpuStats,       \* React state cpuStats (Null or a CPUStats)
    lastSend,       \* React state lastSend (a SendResult)
    isLoading,      \* React state isLoading
    batch           \* the most recent sendStats call: what it issued and returned

vars == <<variant, env, httpResponse, menuBar, service, testServer, proc, effectRan, isMounted, timerArmed, oscPort, openCalls,
          closeCalls, pendingErrors, runs, started, cpuStats,
          lastSend, isLoading, batch>>

\* What the monitoring loop never writes.
aux == <<env, httpResponse, menuBar, service, testServer>>

\* The companion programs of the monitor.
tools == <<menuBar, service, testServer>>

\* The monitor itself.
loop == <<variant, env, httpResponse, proc, effectRan, isMounted, timerArmed,
          oscPort, openCalls, closeCalls, pendingErrors, runs, started,
          cpuStats, lastSend, isLoading, batch>>

Null == [null |-> TRUE]

\* new Date(): logical time, the number of interval periods begun so far.
Date == started

Min(a, b) == IF a < b THEN a ELSE b

\* ------------------------------------------------------------ host values
\* Loads the host reports, in thousandths of a percent (46.454 %).
HostLoads == {46454}

\* Number.prototype.toFixed(2) followed by parseFloat: a value in thousandths
\* becomes a value in hundredths, rounded half away from zero.
toFixed2(x) == IF x >= 0 THEN (x + 5) \div 10 ELSE -((-x + 5) \div 10)

\* What si.currentLoad() resolves to: the aggregate loads and one entry per
\* cpu the load query saw.
CurrentLoad(n, l) ==
    [currentLoad       |-> l,
     currentLoadUser   |-> l,
     currentLoadSystem |-> 0,
     currentLoadIdle   |-> 100000 - l,
     cpus              |-> [i \in 1..n |-> [load |-> l + 1000 * (i - 1)]]]

\* The responses of si.currentLoad() on a healthy host.
HostResponses == {CurrentLoad(n, l) : n \in 1..MaxCores, l \in HostLoads}

\* A load the host reports below zero (-1.5 %).
NegativeLoads == {-1500}

\* The percentages collectCPUStats reads from the load response.
PercentFields == {"currentLoad", "currentLoadUser", "currentLoadSystem",
                  "currentLoadIdle"}

\* An object without the property f: reading it yields undefined.
Omit(rec, f) == [g \in DOMAIN rec \ {f} |-> rec[g]]

\* Responses of si.currentLoad() with malformed data: a negative load, an
\* aggregate percentage that is missing, a cpu entry whose load is missing.
MalformedResponses ==
    {CurrentLoad(n, l) : n \in 1..MaxCores, l \in NegativeLoads}
    \cup {Omit(CurrentLoad(1, l), f) : l \in HostLoads, f \in {"currentLoadUser"}}
    \cup {[CurrentLoad(1, l) EXCEPT !.cpus = << Omit(@[1], "load") >>] : l \in HostLoads}

\* undefined.toFixed(2) raises a TypeError inside the try of collectCPUStats.
ToFixedThrows(load) ==
    \/ ~(PercentFields \subseteq DOMAIN load)
    \/ \E i \in 1..Len(load.cpus) : "load" \notin DOMAIN load.cpus[i]

\* What si.cpu() resolves to.
CpuInfo(m) == [brand |-> "Apple M1 Max", cores |-> m, speed |-> 3]

\* The object literal collectCPUStats returns.
MakeStats(load, info, now) ==
    [timestamp |-> now,
     cpu       |-> [model |-> info.brand, cores |-> info.cores, speed |-> info.speed],
     usage     |-> [total  |-> toFixed2(load.currentLoad),
                    user   |-> toFixed2(load.currentLoadUser),
                    system |-> toFixed2(load.currentLoadSystem),
                    idle   |-> toFixed2(load.currentLoadIdle)],
     perCore   |-> [i \in 1..Len(load.cpus) |->
                       [core |-> i - 1, load |-> toFixed2(load.cpus[i].load)]]]

\* ------------------------------------------------------------ SendResult
\* ErrorResult that leaves success set.
ErrorResultSuccess(msg, now) == [success |-> TRUE, status |-> "ERROR", error |-> msg, timestamp |-> now]

Initializing == [success |-> FALSE, status |-> "Initializing...", error |-> "", timestamp |-> 0]
OkResult(now) == [success |-> TRUE, status |-> "OK", error |-> "", timestamp |-> now]
ErrorResult(msg, now) == [success |-> FALSE, status |-> "ERROR", error |-> msg, timestamp |-> now]


\* ------------------------------------------------------- sendStats (OSC)
Msg(address, core, type, num, str) ==
    [address |-> address, core |-> core, type |-> type, num |-> num, str |-> str]

\* OscMessages with the batch marker issued before the per-core messages.
OscMessagesMarkerEarly(stats) ==
    << Msg("/cpu/usage/total",  -1, "f", stats.usage.total,  ""),
       Msg("/cpu/usage/user",   -1, "f", stats.usage.user,   ""),
       Msg("/cpu/usage/system", -1, "f", stats.usage.system, ""),
       Msg("/cpu/usage/idle",   -1, "f", stats.usage.idle,   ""),
       Msg("/cpu/info/model",   -1, "s", 0, stats.cpu.model),
       Msg("/cpu/info/cores",   -1, "i", stats.cpu.cores, ""),
       Msg("/cpu/timestamp",    -1, "s", stats.timestamp, "") >>
    \o [i \in 1..Len(stats.perCore) |->
           Msg("/cpu/core/{i}/load", stats.perCore[i].core, "f", stats.perCore[i].load, "")]

\* The oscPort.send calls of sendStats, in program order.
OscMessages(stats) ==
    << Msg("/cpu/usage/total",  -1, "f", stats.usage.total,  ""),
       Msg("/cpu/usage/user",   -1, "f", stats.usage.user,   ""),
       Msg("/cpu/usage/system", -1, "f", stats.usage.system, ""),
       Msg("/cpu/usage/idle",   -1, "f", stats.usage.idle,   ""),
       Msg("/cpu/info/model",   -1, "s", 0, stats.cpu.model),
       Msg("/cpu/info/cores",   -1, "i", stats.cpu.cores, "") >>
    \o [i \in 1..Len(stats.perCore) |->
           Msg("/cpu/core/{i}/load", stats.perCore[i].core, "f", stats.perCore[i].load, "")]
    \o << Msg("/cpu/timestamp", -1, "s", stats.timestamp, "") >>

\* The positions of a batch of n messages at which a send is made to fail:
\* the first message, the first per-core message and the batch marker.
FailPositions(n) == {1, 7, n}

\* How the sends of one batch can go wrong: the at-th oscPort.send either
\* throws into the caller ("throw") or returns normally and the port reports
\* the socket error later through its 'error' event ("event"); at = 0 is a
\* batch without failure.  A closed port cannot send at all.
SendFailures(stats, port) ==
    LET n == Len(OscMessages(stats)) IN
    IF port = "closed"
    THEN {[at |-> 1, kind |-> "throw"], [at |-> 1, kind |-> "event"]}
    ELSE {[at |-> 0, kind |-> "none"]}
         \cup {[at |-> k, kind |-> kd] : k \in FailPositions(n), kd \in {"throw", "event"}}

\* sendStats of src/index.ts: try { if (!oscPort) throw; send...; return OK }
\* catch { return ERROR }.  issued = the oscPort.send calls made, in order.
sendStats(stats, port, fail, now) ==
    LET msgs == OscMessages(stats) IN
    IF port = "null"
    THEN [issued |-> << >>, thrownAt |-> 0, eventAt |-> 0, outcome |-> "return",
          result |-> ErrorResult("OSC port not initialized", now)]
    ELSE IF fail.kind = "throw"
    THEN [issued |-> SubSeq(msgs, 1, fail.at), thrownAt |-> fail.at, eventAt |-> 0,
          outcome |-> "return", result |-> ErrorResult("send failed", now)]
    ELSE [issued |-> msgs, thrownAt |-> 0, eventAt |-> fail.at,
          outcome |-> "return", result |-> OkResult(now)]

\* ------------------------------------------------------ sendStats (HTTP)
\* PostOutcomes of a post made without the timeout option: a request that
\* gets no response never settles.
PostOutcomesNoTimeout == {"ok", "response", "request", "setup", "error", "unknown"}

\* How the awaited axios.post settles: resolved, rejected with a response
\* (non-2xx), rejected without a response (unreachable, or the 5000 ms
\* timeout), rejected before the request was made, a non-axios Error, or a
\* thrown non-Error value.
PostOutcomes == {"ok", "response", "request", "timeout", "setup", "error", "unknown"}

sendStatsHTTP(post, now) ==
    [issued |-> << >>, thrownAt |-> IF post = "ok" THEN 0 ELSE 1, eventAt |-> 0,
     outcome |-> "return",
     result |->
        CASE post = "ok"       -> OkResult(now)
          [] post = "response" -> ErrorResult("HTTP 500: Internal Server Error", now)
          [] post = "request"  -> ErrorResult("Network error - Unable to reach target", now)
          [] post = "timeout"  -> ErrorResult("Network error - Unable to reach target", now)
          [] post = "setup"    -> ErrorResult("axios message", now)
          [] post = "error"    -> ErrorResult("error message", now)
          [] OTHER             -> ErrorResult("Unknown error", now)]

\* --------------------------------------------------------- configuration
\* A variable of process.env: undefined, or a string (its characters).
Unset == [set |-> FALSE, chars |-> << >>]
Str(chars) == [set |-> TRUE, chars |-> chars]

\* JavaScript truthiness of such a value: undefined and "" are falsy.
Truthy(v) == v.set /\ v.chars # << >>

\* v || d
OrElse(v, d) == IF Truthy(v) THEN v ELSE Str(d)

\* A JavaScript number: NaN or an integer.
NaN == [nan |-> TRUE, val |-> 0]
Num(v) == [nan |-> FALSE, val |-> v]

DigitChars == << "0", "1", "2", "3", "4", "5", "6", "7", "8", "9" >>
IsDigit(c) == \E d \in 1..Len(DigitChars) : DigitChars[d] = c
DigitValue(c) == (CHOOSE d \in 1..Len(DigitChars) : DigitChars[d] = c) - 1

\* The string without its leading white space.
RECURSIVE TrimStart(_)
TrimStart(s) == IF s # << >> /\ Head(s) = " " THEN TrimStart(Tail(s)) ELSE s

\* The longest prefix of s made of digits.
RECURSIVE DigitPrefix(_)
DigitPrefix(s) ==
    IF s # << >> /\ IsDigit(Head(s)) THEN << Head(s) >> \o DigitPrefix(Tail(s)) ELSE << >>

\* The value of a string of digits, read in base 10 after acc.
RECURSIVE Decimal(_, _)
Decimal(s, acc) ==
    IF s = << >> THEN acc ELSE Decimal(Tail(s), 10 * acc + DigitValue(Head(s)))

\* parseInt(string, 10): white space, an optional sign, then the longest run
\* of digits; NaN when there is no digit; whatever follows is ignored.
parseInt(s) ==
    LET t      == TrimStart(s)
        signed == t # << >> /\ Head(t) \in {"-", "+"}
        neg    == t # << >> /\ Head(t) = "-"
        digits == DigitPrefix(IF signed THEN Tail(t) ELSE t)
    IN  IF digits = << >> THEN NaN
        ELSE Num(IF neg THEN -Decimal(digits, 0) ELSE Decimal(digits, 0))

\* const OSC_PORT = parseInt(process.env.OSC_PORT || '9877', 10)
OSC_PORT == parseInt(OrElse(env.OSC_PORT, << "9", "8", "7", "7" >>).chars)

\* const INTERVAL_MS = parseInt(process.env.INTERVAL_MS || '10000', 10)
INTERVAL_MS == parseInt(OrElse(env.INTERVAL_MS, << "1", "0", "0", "0", "0" >>).chars)

\* const TARGET_URL = process.env.TARGET_URL (HTTP variant)
TARGET_URL == env.TARGET_URL

\* Values INTERVAL_MS and OSC_PORT are started with: unset, empty, zero,
\* negative, non-numeric, numeric, numeric with a trailing unit.
IntervalEnvs == {Unset, Str(<< >>), Str(<< "0" >>), Str(<< "-", "5" >>),
                 Str(<< "a", "b", "c" >>), Str(<< " ", "2", "5", "0" >>),
                 Str(<< "5", "s" >>)}
PortEnvs == {Unset, Str(<< "a", "b", "c" >>)}
TargetEnvs == {Unset, Str(<< "h", "t", "t", "p" >>)}

\* The environments of a variant: the OSC program reads OSC_PORT, the HTTP
\* program TARGET_URL.
Envs(v) ==
    [INTERVAL_MS : IntervalEnvs,
     OSC_PORT    : IF v = "osc" THEN PortEnvs ELSE {Unset},
     TARGET_URL  : IF v = "http" THEN TargetEnvs ELSE {Unset}]

\* The environment of the README quick start: the defaults, and the target
\* the HTTP variant requires.
DefaultEnv(v) ==
    [INTERVAL_MS |-> Unset, OSC_PORT |-> Unset,
     TARGET_URL  |-> IF v = "http" THEN Str(<< "h", "t", "t", "p" >>) ELSE Unset]

\* No request has been answered yet.
NoResponse == [status |-> 0, error |-> "", body |-> << >>]

\* ------------------------------------------------------------ menu bar app
\* An optional Double (total: Double?).
NoDouble == [some |-> FALSE, val |-> 0]
Some(v) == [some |-> TRUE, val |-> v]

\* The title of the status item: "CPU --", "CPU ?" or "CPU <pct>%".
Title(kind, pct) == [kind |-> kind, pct |-> pct]

\* buildMenu(cores:total:error:): the rows of the dropdown that depend on
\* the arguments.
buildMenu(cores, total, error) == [total |-> total, cores |-> cores, error |-> error]

\* No block has run on the main queue yet.
NoBlock == [kind |-> "none", total |-> NoDouble, cores |-> << >>,
            from |-> [error |-> FALSE, isArray |-> FALSE, items |-> << >>]]

\* The app before applicationDidFinishLaunching: its status item, the data
\* tasks in flight, the blocks waiting on the main queue and the block that
\* ran last.
NotLaunched ==
    [launched |-> FALSE, title |-> Title("", 0), tint |-> "default",
     menu |-> buildMenu(<< >>, NoDouble, FALSE), inflight |-> 0, queue |-> << >>,
     applied |-> NoBlock]

\* ------------------------------------------------------- service manager
\* AGENT_LABEL and MENUBAR_LABEL.
Labels == {"agent", "menubar"}

\* The LaunchAgents of the user's gui domain and the plist files in
\* ~/Library/LaunchAgents, with no run of service.sh under way: nothing
\* loaded, no plist installed.
ServiceIdle ==
    [loaded |-> [l \in Labels |-> FALSE], plist |-> [l \in Labels |-> FALSE],
     cmd |-> "none", noMenubar |-> FALSE, pc |-> "idle", at |-> "",
     out |-> {}, last |-> [cmd |-> "none", exit |-> 0]]

\* ------------------------------------------------------------ test server
\* The test server with no request received yet.
ServerIdle == [reqs |-> << >>]

\* The companion programs before any of them has been started.
ToolsIdle ==
    /\ menuBar = NotLaunched
    /\ service = ServiceIdle
    /\ testServer = ServerIdle

\* ----------------------------------------------------------------- state
Cycles == 1..MaxCycles

NoRun == [pc |-> "none", load |-> Null, outcome |-> "none"]
DoneRun(o) == [pc |-> "done", load |-> Null, outcome |-> o]

NoBatch == [run |-> 0, stats |-> Null, issued |-> << >>, thrownAt |-> 0,
            eventAt |-> 0, outcome |-> "none", result |-> Initializing]

\* A monitor invocation is in flight from its call to the end of its last
\* continuation.
InFlight(r) == runs[r].pc \in {"load", "cpu", "post"}

\* BeforeRender with a snapshot already in the cpuStats state.
BeforeRenderStale ==
    /\ httpResponse = NoResponse
    /\ effectRan = FALSE
    /\ isMounted = FALSE
    /\ timerArmed = FALSE
    /\ oscPort = "null"
    /\ openCalls = 0
    /\ closeCalls = 0
    /\ pendingErrors = 0
    /\ runs = [r \in Cycles |-> NoRun]
    /\ started = 0
    /\ cpuStats = MakeStats(CurrentLoad(1, 0), CpuInfo(1), 0)
    /\ lastSend = Initializing
    /\ isLoading = TRUE
    /\ batch = NoBatch

\* The program before React has rendered App: module state and the initial
\* values of the useState hooks.
BeforeRender ==
    /\ httpResponse = NoResponse
    /\ effectRan = FALSE
    /\ isMounted = FALSE
    /\ timerArmed = FALSE
    /\ oscPort = "null"
    /\ openCalls = 0
    /\ closeCalls = 0
    /\ pendingErrors = 0
    /\ runs = [r \in Cycles |-> NoRun]
    /\ started = 0
    /\ cpuStats = Null
    /\ lastSend = Initializing
    /\ isLoading = TRUE
    /\ batch = NoBatch

\* The process as render(<App />) leaves it, started with the environment of
\* the README quick start.
Init ==
    /\ variant \in {"osc", "http"}
    /\ env = DefaultEnv(variant)
    /\ proc = "running"
    /\ BeforeRender
    /\ ToolsIdle

\* ------------------------------------------------------------- operations
\* oscPort.close(), guarded by if (oscPort) at both call sites.
ClosePort(port) == IF port = "null" THEN port ELSE "closed"
CloseCount(port, n) == IF port = "null" THEN n ELSE n + 1

\* const monitor = async () => { ... }: the synchronous part of a call runs
\* collectCPUStats up to its first await, si.currentLoad().
monitor(r) == [runs EXCEPT ![r] = [pc |-> "load", load |-> Null, outcome |-> "none"]]

\* MonitorCatch that swallows the error instead of recording it.
MonitorCatchSilent(msg) ==
    /\ msg = msg
    /\ UNCHANGED <<lastSend, isLoading>>

\* MonitorCatch without setIsLoading(false).
MonitorCatchKeepsLoading(msg) ==
    IF isMounted
    THEN /\ lastSend' = ErrorResult(msg, Date)
         /\ UNCHANGED isLoading
    ELSE UNCHANGED <<lastSend, isLoading>>

\* The catch block of monitor.
MonitorCatch(msg) ==
    IF isMounted
    THEN /\ lastSend' = ErrorResult(msg, Date)
         /\ isLoading' = FALSE
    ELSE UNCHANGED <<lastSend, isLoading>>

\* UseEffect without the direct monitor() call: the first cycle waits for
\* the first tick.
UseEffectWaits ==
    /\ proc = "running"
    /\ UNCHANGED aux
    /\ ~effectRan
    /\ effectRan' = TRUE
    /\ isMounted' = TRUE
    /\ oscPort' = IF variant = "osc" THEN "opening" ELSE oscPort
    /\ openCalls' = IF variant = "osc" THEN openCalls + 1 ELSE openCalls
    /\ timerArmed' = TRUE
    /\ UNCHANGED <<variant, proc, closeCalls, pendingErrors, runs, started,
                   cpuStats, lastSend, isLoading, batch>>

\* React.useEffect(() => { isMounted = true; initializeOSC(); monitor();
\* setInterval(monitor, INTERVAL_MS); ... }, []).  The HTTP variant has no
\* port to initialise.
UseEffect ==
    /\ proc = "running"
    /\ UNCHANGED aux
    /\ ~effectRan
    /\ effectRan' = TRUE
    /\ isMounted' = TRUE
    /\ oscPort' = IF variant = "osc" THEN "opening" ELSE oscPort
    /\ openCalls' = IF variant = "osc" THEN openCalls + 1 ELSE openCalls
    /\ runs' = monitor(1)
    /\ started' = 1
    /\ timerArmed' = TRUE
    /\ UNCHANGED <<variant, proc, closeCalls, pendingErrors,
                   cpuStats, lastSend, isLoading, batch>>

\* oscPort.on('ready', () => {}).
PortReady ==
    /\ proc = "running"
    /\ UNCHANGED aux
    /\ oscPort = "opening"
    /\ oscPort' = "ready"
    /\ UNCHANGED <<variant, proc, effectRan, isMounted, timerArmed, openCalls,
                   closeCalls, pendingErrors, runs, started,
                   cpuStats, lastSend, isLoading, batch>>

\* PortError without a listener registered: an 'error' event nobody listens
\* to is thrown by the emitter and ends the process.
PortErrorUnhandled ==
    /\ proc = "running"
    /\ UNCHANGED aux
    /\ pendingErrors > 0
    /\ pendingErrors' = pendingErrors - 1
    /\ proc' = "exited"
    /\ UNCHANGED <<variant, effectRan, isMounted, timerArmed, oscPort,
                   openCalls, closeCalls, runs, started, cpuStats, lastSend,
                   isLoading, batch>>

\* oscPort.on('error', (error) => console.error(...)): the handler writes a
\* console line and changes nothing in the program.
PortError ==
    /\ proc = "running"
    /\ UNCHANGED aux
    /\ pendingErrors > 0
    /\ pendingErrors' = pendingErrors - 1
    /\ UNCHANGED <<variant, proc, effectRan, isMounted, timerArmed, oscPort,
                   openCalls, closeCalls, runs, started, cpuStats, lastSend,
                   isLoading, batch>>

\* The interval fires: setInterval calls monitor, whatever earlier calls are
\* still doing.
Tick ==
    /\ proc = "running"
    /\ UNCHANGED aux
    /\ timerArmed
    /\ started < MaxCycles
    /\ started' = started + 1
    /\ runs' = monitor(started + 1)
    /\ UNCHANGED <<variant, proc, effectRan, isMounted, timerArmed, oscPort,
                   openCalls, closeCalls, pendingErrors, cpuStats,
                   lastSend, isLoading, batch>>

\* await si.currentLoad() settles.  A rejection is rethrown by the catch of
\* collectCPUStats and lands in the catch of monitor.
LoadSettles(r, responses) ==
    /\ proc = "running"
    /\ UNCHANGED aux
    /\ runs[r].pc = "load"
    /\ \E ok \in BOOLEAN, load \in responses :
         IF ok
         THEN /\ runs' = [runs EXCEPT ![r].pc = "cpu", ![r].load = load]
              /\ UNCHANGED <<lastSend, isLoading>>
         ELSE /\ runs' = [runs EXCEPT ![r] = DoneRun("collectFailed")]
              /\ MonitorCatch("Failed to collect CPU stats: currentLoad")
    /\ UNCHANGED <<variant, proc, effectRan, isMounted, timerArmed, oscPort,
                   openCalls, closeCalls, pendingErrors, started,
                   cpuStats, batch>>

LoadSettled(r) == LoadSettles(r, HostResponses)

\* SetCpuStats without the if (isMounted) guard.
SetCpuStatsUnguarded(stats) == cpuStats' = stats

\* SetCpuStats that keeps the first snapshot instead of replacing it.
SetCpuStatsOnce(stats) ==
    IF isMounted /\ cpuStats = Null THEN cpuStats' = stats ELSE UNCHANGED cpuStats

\* if (isMounted) { setCpuStats(stats); setIsLoading(false); } -- the snapshot.
SetCpuStats(stats) ==
    IF isMounted THEN cpuStats' = stats ELSE UNCHANGED cpuStats

\* The continuation of monitor after collectCPUStats returned stats:
\* setCpuStats, then sendStats.  The OSC sendStats has no await inside, so
\* its whole batch and setLastSend run before any other task; the HTTP
\* sendStats posts stats and stops at await axios.post.
AfterCollect(r, stats) ==
    /\ SetCpuStats(stats)
    /\ IF variant = "osc"
       THEN \E fail \in SendFailures(stats, oscPort) :
              LET res == sendStats(stats, oscPort, fail, Date) IN
              /\ batch' = [run |-> r, stats |-> stats, issued |-> res.issued,
                           thrownAt |-> res.thrownAt, eventAt |-> res.eventAt,
                           outcome |-> res.outcome, result |-> res.result]
              /\ pendingErrors' = IF res.eventAt > 0
                                  THEN Min(pendingErrors + 1, MaxErrors)
                                  ELSE pendingErrors
              /\ IF res.outcome = "throw"
                 THEN /\ MonitorCatch(res.result.error)
                      /\ runs' = [runs EXCEPT ![r] = DoneRun("sendThrew")]
                 ELSE /\ lastSend' = IF isMounted THEN res.result ELSE lastSend
                      /\ isLoading' = IF isMounted THEN FALSE ELSE isLoading
                      /\ runs' = [runs EXCEPT ![r] = DoneRun("sent")]
       ELSE /\ runs' = [runs EXCEPT ![r].pc = "post", ![r].load = Null]
            /\ isLoading' = IF isMounted THEN FALSE ELSE isLoading
            /\ UNCHANGED <<batch, pendingErrors, lastSend>>

\* await si.cpu() settles; on success the object literal is built, which
\* throws when a percentage of the load response is undefined.
CpuSettled(r) ==
    /\ proc = "running"
    /\ UNCHANGED aux
    /\ runs[r].pc = "cpu"
    /\ \E ok \in BOOLEAN, m \in 1..MaxCores :
         IF ok /\ ~ToFixedThrows(runs[r].load)
         THEN AfterCollect(r, MakeStats(runs[r].load, CpuInfo(m), Date))
         ELSE /\ runs' = [runs EXCEPT ![r] = DoneRun("collectFailed")]
              /\ MonitorCatch(IF ok THEN "Failed to collect CPU stats: toFixed"
                                    ELSE "Failed to collect CPU stats: cpu")
              /\ UNCHANGED <<cpuStats, batch, pendingErrors>>
    /\ UNCHANGED <<variant, proc, effectRan, isMounted, timerArmed, oscPort,
                   openCalls, closeCalls, started>>

\* await axios.post(...) settles as post (HTTP variant), then setLastSend.
PostSettles(r, post) ==
    /\ proc = "running"
    /\ UNCHANGED aux
    /\ runs[r].pc = "post"
    /\ post \in PostOutcomes
    /\ LET res == sendStatsHTTP(post, Date) IN
         /\ batch' = [run |-> r, stats |-> Null, issued |-> res.issued,
                      thrownAt |-> res.thrownAt, eventAt |-> res.eventAt,
                      outcome |-> res.outcome, result |-> res.result]
         /\ IF res.outcome = "throw"
            THEN /\ MonitorCatch(res.result.error)
                 /\ runs' = [runs EXCEPT ![r] = DoneRun("sendThrew")]
            ELSE /\ lastSend' = IF isMounted THEN res.result ELSE lastSend
                 /\ UNCHANGED isLoading
                 /\ runs' = [runs EXCEPT ![r] = DoneRun("sent")]
    /\ UNCHANGED <<variant, proc, effectRan, isMounted, timerArmed, oscPort,
                   openCalls, closeCalls, pendingErrors, started,
                   cpuStats>>

PostSettled(r) == \E post \in PostOutcomes : PostSettles(r, post)

\* Cleanup that forgets clearInterval(interval).
CleanupKeepsInterval ==
    /\ proc = "running"
    /\ UNCHANGED aux
    /\ effectRan
    /\ isMounted
    /\ isMounted' = FALSE
    /\ timerArmed' = timerArmed
    /\ oscPort' = ClosePort(oscPort)
    /\ closeCalls' = CloseCount(oscPort, closeCalls)
    /\ UNCHANGED <<variant, proc, effectRan, openCalls, pendingErrors,
                    runs, started, cpuStats, lastSend, isLoading,
                   batch>>

\* The cleanup React runs when the component unmounts:
\* isMounted = false; clearInterval(interval); if (oscPort) oscPort.close().
Cleanup ==
    /\ proc = "running"
    /\ UNCHANGED aux
    /\ effectRan
    /\ isMounted
    /\ isMounted' = FALSE
    /\ timerArmed' = FALSE
    /\ oscPort' = ClosePort(oscPort)
    /\ closeCalls' = CloseCount(oscPort, closeCalls)
    /\ UNCHANGED <<variant, proc, effectRan, openCalls, pendingErrors,
                    runs, started, cpuStats, lastSend, isLoading,
                   batch>>

\* process.on('SIGINT' | 'SIGTERM', shutdown):
\* if (oscPort) oscPort.close(); unmount(); process.exit(0).
\* Whether unmount() runs the effect cleanup before process.exit is up to
\* the renderer's scheduling of passive effects: both outcomes are taken.
shutdown(cleanupRuns) ==
    LET port1 == ClosePort(oscPort)
        count1 == CloseCount(oscPort, closeCalls)
        doCleanup == effectRan /\ isMounted /\ cleanupRuns
    IN  /\ isMounted' = IF doCleanup THEN FALSE ELSE isMounted
        /\ timerArmed' = IF doCleanup THEN FALSE ELSE timerArmed
        /\ oscPort' = IF doCleanup THEN ClosePort(port1) ELSE port1
        /\ closeCalls' = IF doCleanup THEN CloseCount(port1, count1) ELSE count1
        /\ proc' = "exited"

Shutdown ==
    /\ proc = "running"
    /\ UNCHANGED aux
    /\ \E cleanupRuns \in BOOLEAN : shutdown(cleanupRuns)
    /\ UNCHANGED <<variant, effectRan, openCalls, pendingErrors,
                   runs, started, cpuStats, lastSend, isLoading, batch>>

Next ==
    \/ UseEffect
    \/ PortReady
    \/ PortError
    \/ Tick
    \/ \E r \in Cycles : LoadSettled(r)
    \/ \E r \in Cycles : CpuSettled(r)
    \/ \E r \in Cycles : PostSettled(r)
    \/ Cleanup
    \/ Shutdown

Spec == Init /\ [][Next]_vars

\* The HTTP POST program alone, with the timer behind the timeout: 5000
\* option of axios.post: it fires when no response has arrived, so a pending
\* post is eventually settled as a timeout unless something else settles it
\* or the process exits first.
HttpInit ==
    /\ Init
    /\ variant = "http"

HttpNext ==
    \/ UseEffect
    \/ Tick
    \/ \E r \in Cycles : LoadSettled(r)
    \/ \E r \in Cycles : CpuSettled(r)
    \/ \E r \in Cycles : PostSettled(r)
    \/ Cleanup
    \/ Shutdown

FairSpec ==
    /\ HttpInit
    /\ [][HttpNext]_vars
    /\ \A r \in Cycles : WF_vars(PostSettles(r, "timeout"))

\* The module body up to render(<App />): the HTTP variant exits with code 1
\* when TARGET_URL is not set; nothing else is validated.
Startup ==
    /\ proc = "starting"
    /\ proc' = IF variant = "http" /\ ~Truthy(TARGET_URL) THEN "exited" ELSE "running"
    /\ UNCHANGED <<variant, env, httpResponse, effectRan, isMounted, timerArmed,
                   oscPort, openCalls, closeCalls, pendingErrors, runs, started,
                   cpuStats, lastSend, isLoading, batch>>
    /\ UNCHANGED tools

\* A process started with any of the environments.
ConfigInit ==
    /\ variant \in {"osc", "http"}
    /\ env \in Envs(variant)
    /\ proc = "starting"
    /\ BeforeRender
    /\ ToolsIdle

ConfigNext ==
    \/ Startup
    \/ Next

ConfigSpec == ConfigInit /\ [][ConfigNext]_vars

\* ------------------------------------------------------ HTTP JSON endpoint
\* The snapshot the endpoint serves: the one last handed to the sinks.
HttpStore == batch.stats

\* The JSON array of the README: one name/value pair per OSC message of the
\* snapshot, in the order of the messages.
StatsBody(stats) ==
    LET msgs == OscMessages(stats) IN
    [i \in 1..Len(msgs) |->
        [name |-> msgs[i].address, core |-> msgs[i].core,
         num |-> msgs[i].num, str |-> msgs[i].str]]

\* HttpRespond that answers 200 with an empty array while there is no data.
HttpRespondEmpty(store) ==
    [status |-> 200, error |-> "",
     body |-> IF store = Null THEN << >> ELSE StatsBody(store)]

\* The answer to a GET: 503 and the error body while there is no snapshot,
\* 200 and the array afterwards.
HttpRespond(store) ==
    IF store = Null
    THEN [status |-> 503, error |-> "No data available yet", body |-> << >>]
    ELSE [status |-> 200, error |-> "", body |-> StatsBody(store)]

\* A client (the menu bar app polls every 5 seconds) sends GET / and the
\* request handler answers from the store.
HttpGet ==
    /\ proc = "running"
    /\ httpResponse = NoResponse
    /\ httpResponse' = HttpRespond(HttpStore)
    /\ UNCHANGED <<variant, env, proc, effectRan, isMounted, timerArmed, oscPort,
                   openCalls, closeCalls, pendingErrors, runs, started,
                   cpuStats, lastSend, isLoading, batch>>
    /\ UNCHANGED tools

\* The request handler returns: the answer has been written out before any
\* other task of the process runs.
HttpDone ==
    /\ httpResponse # NoResponse
    /\ httpResponse' = NoResponse
    /\ UNCHANGED <<variant, env, proc, effectRan, isMounted, timerArmed, oscPort,
                   openCalls, closeCalls, pendingErrors, runs, started,
                   cpuStats, lastSend, isLoading, batch>>
    /\ UNCHANGED tools

\* The OSC program started with HTTP_ENABLED=true.
PullInit ==
    /\ Init
    /\ variant = "osc"

\* No request handler is running.
HttpIdle == httpResponse = NoResponse

PullNext ==
    \/ HttpIdle /\ UseEffect
    \/ HttpIdle /\ PortReady
    \/ HttpIdle /\ PortError
    \/ HttpIdle /\ Tick
    \/ HttpIdle /\ \E r \in Cycles : LoadSettled(r)
    \/ HttpIdle /\ \E r \in Cycles : CpuSettled(r)
    \/ HttpIdle /\ Cleanup
    \/ HttpIdle /\ Shutdown
    \/ HttpGet
    \/ HttpDone

PullSpec == PullInit /\ [][PullNext]_vars

\* The same program on a host whose load query may also return malformed
\* data.
LoadSettledAny(r) == LoadSettles(r, HostResponses \cup MalformedResponses)

CollectNext ==
    \/ UseEffect
    \/ PortReady
    \/ PortError
    \/ Tick
    \/ \E r \in Cycles : LoadSettledAny(r)
    \/ \E r \in Cycles : CpuSettled(r)
    \/ \E r \in Cycles : PostSettled(r)
    \/ Cleanup
    \/ Shutdown

CollectSpec == Init /\ [][CollectNext]_vars

\* ------------------------------------------------------------ terminal UI
\* getUsageColor of App; value in hundredths of a percent.
getUsageColor(value) ==
    IF value >= 8000 THEN "red"
    ELSE IF value >= 5000 THEN "yellow"
    ELSE "green"

\* ------------------------------------------------- menu bar app: fetching
\* Loads around the two colour thresholds: 49.99, 50.00, 80.00, 80.01 %.
MenuLoads == {49990, 50000, 80000, 80010}

\* Snapshots the polled server may hold.
MenuStats == {MakeStats(CurrentLoad(n, l), CpuInfo(n), 0) : n \in 1..MaxCores, l \in MenuLoads}

\* The sequence s in reverse order.
Reverse(s) == [i \in 1..Len(s) |-> s[Len(s) + 1 - i]]

\* The pair is the aggregate load / a per-core load.
IsTotal(item) == item.name = "/cpu/usage/total"
IsCoreLoad(item) == item.name = "/cpu/core/{i}/load"

\* item["value"] as? Double succeeds: the value is a JSON number.
IsDouble(item) == item.str = ""

\* What a data task can complete with: a transport error, or a body -- the
\* 503 object, the array of a snapshot, such an array without its total,
\* such an array in another order.
FetchResults ==
    {[error |-> TRUE, isArray |-> FALSE, items |-> << >>]}
    \cup {[error |-> FALSE, isArray |-> FALSE, items |-> << >>]}
    \cup {[error |-> FALSE, isArray |-> TRUE, items |-> StatsBody(s)] : s \in MenuStats}
    \cup {[error |-> FALSE, isArray |-> TRUE,
           items |-> SelectSeq(StatsBody(s), LAMBDA item : ~IsTotal(item))] :
             s \in {t \in MenuStats : t.usage.total = 5000}}
    \cup {[error |-> FALSE, isArray |-> TRUE, items |-> Reverse(StatsBody(s))] :
             s \in {t \in MenuStats : t.usage.total = 8000}}

\* var total: the value of the last pair named /cpu/usage/total that is a
\* number.
RECURSIVE ParseTotal(_, _)
ParseTotal(items, acc) ==
    IF items = << >> THEN acc
    ELSE ParseTotal(Tail(items),
                    IF IsTotal(Head(items)) /\ IsDouble(Head(items))
                    THEN Some(Head(items).num) ELSE acc)

\* var cores: (core number, load) of every numeric per-core pair, in the
\* order of the array.
RECURSIVE ParseCores(_)
ParseCores(items) ==
    IF items = << >> THEN << >>
    ELSE LET item == Head(items) IN
         (IF IsCoreLoad(item) /\ IsDouble(item)
          THEN << [core |-> item.core, load |-> item.num] >> ELSE << >>)
         \o ParseCores(Tail(items))

\* Insertion of one pair into a list sorted by core number.
RECURSIVE InsertCore(_, _)
InsertCore(c, sorted) ==
    IF sorted = << >> THEN << c >>
    ELSE IF c.core < Head(sorted).core THEN << c >> \o sorted
    ELSE << Head(sorted) >> \o InsertCore(c, Tail(sorted))

\* cores.sort { $0.0 < $1.0 }
RECURSIVE SortCores(_)
SortCores(cores) ==
    IF cores = << >> THEN << >> ELSE InsertCore(Head(cores), SortCores(Tail(cores)))

\* The completion handler of the data task: the block it hands to the main
\* queue, with the values the block captures and the result it stems from.
FetchBlock(result) ==
    IF result.error
    THEN [kind |-> "error", total |-> NoDouble, cores |-> << >>, from |-> result]
    ELSE IF ~result.isArray
    THEN [kind |-> "notArray", total |-> NoDouble, cores |-> << >>, from |-> result]
    ELSE [kind |-> "stats", total |-> ParseTotal(result.items, NoDouble),
          cores |-> SortCores(ParseCores(result.items)), from |-> result]

\* Int(total.rounded()), total in hundredths of a percent.
Rounded(total) == (total + 50) \div 100

\* The tint of the title for a total.
TintFor(total) ==
    IF total >= 8000 THEN "red"
    ELSE IF total >= 5000 THEN "orange"
    ELSE "green"

\* The block a completion handler runs on the main queue.  After a body that
\* is not an array only the title and the tint are set: the menu is left as
\* it was.
ApplyBlock(app, block) ==
    CASE block.kind = "error" ->
           [app EXCEPT !.title = Title("?", 0), !.tint = "gray",
                       !.menu = buildMenu(<< >>, NoDouble, TRUE)]
      [] block.kind = "notArray" ->
           [app EXCEPT !.title = Title("?", 0), !.tint = "gray"]
      [] block.kind = "stats" ->
           IF block.total.some
           THEN [app EXCEPT !.title = Title("pct", Rounded(block.total.val)),
                            !.tint = TintFor(block.total.val),
                            !.menu = buildMenu(block.cores, block.total, FALSE)]
           ELSE [app EXCEPT !.title = Title("--", 0), !.tint = "gray",
                            !.menu = buildMenu(block.cores, block.total, FALSE)]

\* applicationDidFinishLaunching: the placeholder title and menu, then
\* startPolling, which arms the timer and fetches at once.
AppLaunch ==
    /\ ~menuBar.launched
    /\ menuBar' = [menuBar EXCEPT !.launched = TRUE,
                                  !.title = Title("--", 0),
                                  !.menu = buildMenu(<< >>, NoDouble, FALSE),
                                  !.inflight = 1]
    /\ UNCHANGED <<loop, service, testServer>>

\* The 5 second timer fires: fetchStats resumes another data task.
TimerFires ==
    /\ menuBar.launched
    /\ menuBar.inflight + Len(menuBar.queue) < MaxFetches
    /\ menuBar' = [menuBar EXCEPT !.inflight = @ + 1]
    /\ UNCHANGED <<loop, service, testServer>>

\* A data task completes with result: its completion handler parses the
\* body and dispatches a block to the main queue.
TaskCompletes(result) ==
    /\ menuBar.inflight > 0
    /\ menuBar' = [menuBar EXCEPT !.inflight = @ - 1,
                                  !.queue = Append(@, FetchBlock(result))]
    /\ UNCHANGED <<loop, service, testServer>>

\* The main queue runs its next block.
MainRuns ==
    /\ menuBar.queue # << >>
    /\ menuBar' = [ApplyBlock(menuBar, Head(menuBar.queue)) EXCEPT
                      !.queue = Tail(menuBar.queue),
                      !.applied = Head(menuBar.queue)]
    /\ UNCHANGED <<loop, service, testServer>>

MenuNext ==
    \/ AppLaunch
    \/ TimerFires
    \/ \E result \in FetchResults : TaskCompletes(result)
    \/ MainRuns

MenuInit == Init /\ variant = "osc"

MenuSpec == MenuInit /\ [][MenuNext]_vars

\* ------------------------------------------------- service manager: runs
\* Every state of the two agents and the two plist files a run can start
\* from.
ServiceStates ==
    {[ServiceIdle EXCEPT !.loaded = ld, !.plist = pl] :
        ld \in [Labels -> BOOLEAN], pl \in [Labels -> BOOLEAN]}

\* The green lines of cmd_uninstall.
Stopped(label) == IF label = "agent" THEN "Daemon stopped." ELSE "Menu bar app stopped."
Removed(label) == IF label = "agent" THEN "Daemon plist removed." ELSE "Menu bar plist removed."

\* The green lines of cmd_install after a bootstrap.
Installed(label) ==
    IF label = "agent" THEN "Daemon LaunchAgent installed and started."
    ELSE "Menu bar LaunchAgent installed and started."

\* The script ends with the exit status.
Exit(svc, status) ==
    [svc EXCEPT !.cmd = "none", !.pc = "idle", !.at = "",
                !.last = [cmd |-> svc.cmd, exit |-> status]]

\* The main dispatch: ./scripts/service.sh install [--no-menubar] and
\* ./scripts/service.sh uninstall.
RunScript(cmd, noMenubar) ==
    /\ service.pc = "idle"
    /\ cmd \in {"install", "uninstall"}
    /\ service' = [service EXCEPT !.cmd = cmd, !.noMenubar = noMenubar, !.out = {},
                                  !.pc = IF cmd = "install" THEN "build" ELSE "unload",
                                  !.at = "agent"]
    /\ UNCHANGED <<loop, menuBar, testServer>>

\* What precedes the LaunchAgents in cmd_install: npm run build, which node
\* and the test for dist/index.js.  Under set -e a failure of any of them
\* ends the script with status 1.
BuildOutcomes == {"ok", "buildFails", "noNode", "noDist"}

InstallBuild(outcome) ==
    /\ service.cmd = "install"
    /\ service.pc = "build"
    /\ outcome \in BuildOutcomes
    /\ service' = IF outcome = "ok"
                  THEN [service EXCEPT !.pc = "plist", !.at = "agent"]
                  ELSE Exit(service, 1)
    /\ UNCHANGED <<loop, menuBar, testServer>>

\* sed ... > "$AGENT_PLIST" (or "$MENUBAR_PLIST"): the plist file is written.
InstallPlist ==
    /\ service.cmd = "install"
    /\ service.pc = "plist"
    /\ service' = [service EXCEPT !.plist[service.at] = TRUE, !.pc = "bootstrap"]
    /\ UNCHANGED <<loop, menuBar, testServer>>

\* launchctl bootout ... || true; launchctl bootstrap ...: the agent is
\* unloaded if it was loaded, then loaded from the plist; a bootstrap that
\* fails ends the script under set -e.
InstallBootstrap(ok) ==
    /\ service.cmd = "install"
    /\ service.pc = "bootstrap"
    /\ service' =
         IF ~ok THEN Exit([service EXCEPT !.loaded[service.at] = FALSE], 5)
         ELSE [service EXCEPT !.loaded[service.at] = TRUE,
                              !.out = @ \cup {Installed(service.at)},
                              !.pc = IF service.at = "agent" THEN "menubar" ELSE "finish",
                              !.at = ""]
    /\ UNCHANGED <<loop, menuBar, testServer>>

\* The optional menu bar app: skipped with --no-menubar or without swiftc,
\* else compiled; a failing compilation ends the script.
InstallMenubar(swiftc) ==
    /\ service.cmd = "install"
    /\ service.pc = "menubar"
    /\ swiftc \in {"missing", "compiles", "fails"}
    /\ service' =
         IF service.noMenubar
         THEN [service EXCEPT !.out = @ \cup {"Skipping menu bar app (--no-menubar)."},
                              !.pc = "finish"]
         ELSE IF swiftc = "missing"
         THEN [service EXCEPT !.out = @ \cup {"Warning: swiftc not found. Skipping menu bar app."},
                              !.pc = "finish"]
         ELSE IF swiftc = "fails" THEN Exit(service, 1)
         ELSE [service EXCEPT !.out = @ \cup {"Menu bar app compiled."},
                              !.pc = "plist", !.at = "menubar"]
    /\ UNCHANGED <<loop, menuBar, testServer>>

\* The last lines of cmd_install.
InstallFinish ==
    /\ service.cmd = "install"
    /\ service.pc = "finish"
    /\ service' = Exit([service EXCEPT !.out = @ \cup {"SystemOSC service installed successfully!"}], 0)
    /\ UNCHANGED <<loop, menuBar, testServer>>

\* UnloadAgent that stops an agent only while its plist is installed.
UnloadAgentIfInstalled ==
    /\ service.cmd = "uninstall"
    /\ service.pc = "unload"
    /\ service' =
         IF service.loaded[service.at] /\ service.plist[service.at]
         THEN [service EXCEPT !.loaded[service.at] = FALSE,
                              !.out = @ \cup {Stopped(service.at)},
                              !.pc = "rm"]
         ELSE [service EXCEPT !.pc = "rm"]
    /\ UNCHANGED <<loop, menuBar, testServer>>

\* if launchctl print ...; then launchctl bootout ... || true; green ...; fi:
\* a loaded agent is booted out of the domain, whatever status bootout
\* reports.
UnloadAgent ==
    /\ service.cmd = "uninstall"
    /\ service.pc = "unload"
    /\ service' =
         IF service.loaded[service.at]
         THEN [service EXCEPT !.loaded[service.at] = FALSE,
                              !.out = @ \cup {Stopped(service.at)},
                              !.pc = "rm"]
         ELSE [service EXCEPT !.pc = "rm"]
    /\ UNCHANGED <<loop, menuBar, testServer>>

\* if [ -f "$PLIST" ]; then rm "$PLIST"; green ...; fi
RemovePlist ==
    /\ service.cmd = "uninstall"
    /\ service.pc = "rm"
    /\ service' =
         LET next == [service EXCEPT
                        !.pc = IF service.at = "agent" THEN "unload" ELSE "finish",
                        !.at = IF service.at = "agent" THEN "menubar" ELSE ""] IN
         IF service.plist[service.at]
         THEN [next EXCEPT !.plist[service.at] = FALSE,
                           !.out = @ \cup {Removed(service.at)}]
         ELSE next
    /\ UNCHANGED <<loop, menuBar, testServer>>

\* The last lines of cmd_uninstall.
UninstallFinish ==
    /\ service.cmd = "uninstall"
    /\ service.pc = "finish"
    /\ service' = Exit([service EXCEPT !.out = @ \cup {"SystemOSC services uninstalled."}], 0)
    /\ UNCHANGED <<loop, menuBar, testServer>>

ServiceInit ==
    /\ variant = "osc"
    /\ env = DefaultEnv(variant)
    /\ proc = "running"
    /\ BeforeRender
    /\ menuBar = NotLaunched
    /\ testServer = ServerIdle
    /\ service \in ServiceStates

ServiceNext ==
    \/ \E cmd \in {"install", "uninstall"}, noMenubar \in BOOLEAN : RunScript(cmd, noMenubar)
    \/ \E outcome \in BuildOutcomes : InstallBuild(outcome)
    \/ InstallPlist
    \/ \E ok \in BOOLEAN : InstallBootstrap(ok)
    \/ \E swiftc \in {"missing", "compiles", "fails"} : InstallMenubar(swiftc)
    \/ InstallFinish
    \/ UnloadAgent
    \/ RemovePlist
    \/ UninstallFinish

ServiceSpec == ServiceInit /\ [][ServiceNext]_vars

\* ------------------------------------------------------------ test server
\* The three responses of the handler.
OkReceived == [code |-> 200, status |-> "ok", received |-> TRUE, message |-> ""]
InvalidJSON == [code |-> 400, status |-> "error", received |-> FALSE, message |-> "Invalid JSON"]
NotFound == [code |-> 404, status |-> "error", received |-> FALSE, message |-> "Not found"]

\* Request bodies as token sequences: a CPUStats object, an object without
\* cpu, the literal null, a truncated object and the empty body.
Bodies ==
    { <<"{", "cpu", "usage", "}">>,
      <<"{", "usage", "}">>,
      <<"null">>,
      <<"{", "cpu">>,
      << >> }

Methods == {"POST", "GET"}
Urls == {"/cpu-stats", "/cpu-stats?x=1"}

\* JSON.parse(body): null, an object with its keys, or a SyntaxError.
JSONparse(text) ==
    IF text = <<"null">> THEN [kind |-> "null", keys |-> {}]
    ELSE IF /\ Len(text) >= 2
            /\ text[1] = "{"
            /\ text[Len(text)] = "}"
            /\ \A i \in 2..(Len(text) - 1) : text[i] \in {"cpu", "usage"}
    THEN [kind |-> "object", keys |-> {text[i] : i \in 2..(Len(text) - 1)}]
    ELSE [kind |-> "SyntaxError", keys |-> {}]

\* The try block throws: JSON.parse does, or data.hostname on null, or
\* data.cpu.model / data.usage.total on an object without cpu / usage.
Throws(data) ==
    \/ data.kind # "object"
    \/ "cpu" \notin data.keys
    \/ "usage" \notin data.keys

\* OnEnd that answers 200 whatever the body.
OnEndAccepts(body) == IF body = body THEN OkReceived ELSE InvalidJSON

\* req.on('end', ...): try { parse, log, 200 } catch { 400 }.
OnEnd(body) == IF Throws(JSONparse(body)) THEN InvalidJSON ELSE OkReceived

\* The request handler is called for a new request: a POST to /cpu-stats
\* gets its 'data' and 'end' listeners, anything else is answered 404 at
\* once.
Request(method, url, text) ==
    /\ Len(testServer.reqs) < MaxRequests
    /\ LET post == method = "POST" /\ url = "/cpu-stats" IN
       testServer' = [testServer EXCEPT !.reqs = Append(@,
            [method |-> method, url |-> url, text |-> text, pending |-> text,
             body |-> << >>, listening |-> post, state |-> "receiving",
             responses |-> IF post THEN << >> ELSE << NotFound >>])]
    /\ UNCHANGED <<loop, menuBar, service>>

\* A chunk of k tokens of request i arrives: body += chunk.toString() where
\* the handler listens.
Data(i, k) ==
    /\ i \in 1..Len(testServer.reqs)
    /\ testServer.reqs[i].state = "receiving"
    /\ k \in 1..Len(testServer.reqs[i].pending)
    /\ LET req == testServer.reqs[i] IN
       testServer' = [testServer EXCEPT !.reqs[i] =
            [req EXCEPT !.pending = SubSeq(req.pending, k + 1, Len(req.pending)),
                        !.body = IF req.listening
                                 THEN req.body \o SubSeq(req.pending, 1, k)
                                 ELSE req.body]]
    /\ UNCHANGED <<loop, menuBar, service>>

\* Request i is complete: its 'end' event fires.
End(i) ==
    /\ i \in 1..Len(testServer.reqs)
    /\ testServer.reqs[i].state = "receiving"
    /\ testServer.reqs[i].pending = << >>
    /\ LET req == testServer.reqs[i] IN
       testServer' = [testServer EXCEPT !.reqs[i] =
            [req EXCEPT !.state = "ended",
                        !.responses = IF req.listening
                                      THEN Append(req.responses, OnEnd(req.body))
                                      ELSE req.responses]]
    /\ UNCHANGED <<loop, menuBar, service>>

\* The client goes away before request i is complete: no 'end' event.
Abort(i) ==
    /\ i \in 1..Len(testServer.reqs)
    /\ testServer.reqs[i].state = "receiving"
    /\ testServer.reqs[i].pending # << >>
    /\ testServer' = [testServer EXCEPT !.reqs[i].state = "aborted",
                                        !.reqs[i].pending = << >>]
    /\ UNCHANGED <<loop, menuBar, service>>

ServerInit == Init /\ variant = "osc"

ServerNext ==
    \/ \E method \in Methods, url \in Urls, text \in Bodies : Request(method, url, text)
    \/ \E i \in 1..MaxRequests, k \in 1..2 : Data(i, k)
    \/ \E i \in 1..MaxRequests : End(i)
    \/ \E i \in 1..MaxRequests : Abort(i)

ServerSpec == ServerInit /\ [][ServerNext]_vars

\* ------------------------------------------------------------------ C1
\* C1: cycles never overlap -- a tick that fires while an earlier monitor
\* call is still collecting or sending is skipped, so at most one cycle is
\* in flight at any time.
C1_NoOverlap == Cardinality({r \in Cycles : InFlight(r)}) <= 1

\* ------------------------------------------------------------------ C2
\* The addresses the README and the spec fix, by position in the batch.
FixedAddress(i) ==
    CASE i = 1 -> "/cpu/usage/total"
      [] i = 2 -> "/cpu/usage/user"
      [] i = 3 -> "/cpu/usage/system"
      [] i = 4 -> "/cpu/usage/idle"
      [] i = 5 -> "/cpu/info/model"
      [] OTHER -> "/cpu/info/cores"

OscBatch == variant = "osc" /\ batch.run # 0

\* C2: the messages of a batch are issued in the fixed order total, user,
\* system, idle, model, cores, then /cpu/core/{i}/load for i = 0, 1, ...,
\* and /cpu/timestamp is only ever the last message: every batch whose
\* sends all returned ends with it, and nothing is issued after it.
C2_FixedOrder ==
    OscBatch =>
      LET n == Len(batch.issued) IN
      /\ \A i \in 1..n :
            /\ i <= 6 => /\ batch.issued[i].address = FixedAddress(i)
                         /\ batch.issued[i].core = -1
            /\ i > 6  => \/ /\ batch.issued[i].address = "/cpu/core/{i}/load"
                            /\ batch.issued[i].core = i - 7
                         \/ /\ batch.issued[i].address = "/cpu/timestamp"
                            /\ i = n
      /\ batch.thrownAt = 0 =>
            /\ n >= 7
            /\ batch.issued[n].address = "/cpu/timestamp"
            /\ \A i \in 7..(n - 1) : batch.issued[i].address = "/cpu/core/{i}/load"

C2_Witness ==
    /\ OscBatch
    /\ batch.thrownAt = 0
    /\ Len(batch.stats.perCore) = 2
    /\ Len(batch.issued) = 9

\* ------------------------------------------------------------------ C3
\* C3: a successful sendStats call emits exactly 7 + cpu.cores messages.
C3_MessageCount ==
    (OscBatch /\ batch.result.success) =>
        Len(batch.issued) = 7 + batch.stats.cpu.cores

\* ------------------------------------------------------------------ C4
\* A failure of the port or of the HTTP client during the call: a send or
\* the post threw, or the port reported a socket error for one of the sends.
BatchFailed == batch.thrownAt > 0 \/ batch.eventAt > 0

\* C4: sendStats never throws or rejects, and every failure of the port or
\* of the HTTP client resolves to a SendResult with success = false and the
\* error description.
C4_FailureIsResult ==
    batch.run # 0 =>
      /\ batch.outcome = "return"
      /\ BatchFailed => (~batch.result.success /\ batch.result.status = "ERROR"
                          /\ batch.result.error # "")

\* The half of C4 the code does keep: no exception leaves sendStats.
SendNeverThrows == batch.run # 0 => batch.outcome = "return"

\* ------------------------------------------------------------------ C5
\* C5: when the k-th send of a batch fails with a socket error, no message
\* after the k-th is sent and the batch yields one failure SendResult.
C5_AbortAfterFailure ==
    (OscBatch /\ BatchFailed) =>
      LET k == IF batch.thrownAt > 0 THEN batch.thrownAt ELSE batch.eventAt IN
      /\ Len(batch.issued) = k
      /\ ~batch.result.success

\* ------------------------------------------------------------------ C6
CollectErrors == {"Failed to collect CPU stats: currentLoad",
                  "Failed to collect CPU stats: cpu",
                  "Failed to collect CPU stats: toFixed"}

\* The step in which the collectCPUStats call of cycle r fails.
CollectFails(r) ==
    /\ runs[r].pc \in {"load", "cpu"}
    /\ runs'[r].outcome = "collectFailed"

\* C6: in the step where collectCPUStats of a cycle fails, sendStats is not
\* called (no message, no batch), the cycle is over, the snapshot is left
\* alone, and lastSend becomes the ERROR result carrying the collection
\* error (lastSend is state of the mounted component: the write is under
\* if (isMounted)).
C6_CollectFailure ==
    [][\A r \in Cycles : CollectFails(r) =>
          /\ batch' = batch
          /\ pendingErrors' = pendingErrors
          /\ cpuStats' = cpuStats
          /\ ~InFlight(r)'
          /\ isMounted => /\ lastSend'.status = "ERROR"
                          /\ ~lastSend'.success
                          /\ lastSend'.error \in CollectErrors]_vars

C6_Witness ==
    /\ \E r \in Cycles : runs[r].outcome = "collectFailed"
    /\ isMounted
    /\ lastSend.status = "ERROR"
    /\ lastSend.error \in CollectErrors
    /\ batch.run = 0
    /\ \A r \in Cycles : ~InFlight(r)

\* ------------------------------------------------------------------ C7
\* The step in which cycle r ends in a failure (collection or send).
CycleFails(r) ==
    /\ InFlight(r)
    /\ \/ runs'[r].outcome = "collectFailed"
       \/ runs'[r].pc = "done" /\ batch'.run = r /\ ~batch'.result.success

\* Cycle r finishes collecting in this step, after some other cycle failed.
CollectsAfterFailure(r) ==
    /\ runs[r].pc = "cpu"
    /\ runs'[r].pc # "cpu"
    /\ runs'[r].outcome # "collectFailed"
    /\ \E q \in Cycles : runs[q].pc = "done" /\
          (runs[q].outcome = "collectFailed" \/ ~lastSend.success)

\* C7: a failed cycle leaves the loop alone -- the interval stays armed, the
\* process keeps running, the component stays mounted -- and a later cycle
\* whose queries succeed replaces the snapshot and, when its send succeeds,
\* records the success result.
C7_FailureDoesNotStopLoop ==
    [][\A r \in Cycles :
          /\ CycleFails(r) => /\ timerArmed' = timerArmed
                              /\ proc' = proc
                              /\ isMounted' = isMounted
          /\ (CollectsAfterFailure(r) /\ isMounted) =>
                /\ cpuStats' # Null
                /\ cpuStats'.timestamp = Date
                /\ variant = "osc" => /\ batch'.run = r
                                      /\ cpuStats' = batch'.stats
                                      /\ lastSend' = batch'.result]_vars

C7_Witness ==
    /\ runs[1].outcome = "collectFailed"
    /\ runs[2].outcome = "sent"
    /\ isMounted /\ timerArmed /\ proc = "running"
    /\ batch.run = 2
    /\ lastSend.success
    /\ cpuStats = batch.stats

\* ------------------------------------------------------------------ C8
\* Shutdown has been requested: the signal handler ran (it ends in
\* process.exit) or the effect cleanup ran.
ShutdownRequested == proc = "exited" \/ (effectRan /\ ~isMounted)

\* C8: once shutdown has been requested no new cycle starts; the cleanup
\* has cancelled the interval.
C8_NoCycleAfterShutdown ==
    [][ShutdownRequested =>
          /\ started' = started
          /\ \A r \in Cycles : runs[r].pc = "none" => runs'[r].pc = "none"
          /\ (effectRan /\ ~isMounted) => ~timerArmed]_vars

C8_Witness ==
    /\ proc = "running"
    /\ effectRan /\ ~isMounted
    /\ started < MaxCycles
    /\ \E r \in Cycles : runs[r].pc = "done"

\* ------------------------------------------------------------------ C9
\* C9: the port is never closed while a cycle is between the start of its
\* collect and the end of its send (shutdown waits for the cycle in flight).
C9_CloseWaitsForCycle ==
    oscPort = "closed" => \A r \in Cycles : ~InFlight(r)

\* ----------------------------------------------------------------- C10
\* C10: the port is opened once and, on every shutdown path, closed exactly
\* once.
C10_ClosedExactlyOnce ==
    /\ openCalls <= 1
    /\ closeCalls <= 1
    /\ (proc = "exited" /\ openCalls = 1) => closeCalls = 1

\* ----------------------------------------------------------------- C11
\* The snapshots the program holds: the one on display and the one last
\* handed to sendStats.
Snapshots == {s \in {cpuStats, batch.stats} : s # Null}

\* C11: every snapshot has as many perCore entries as cpu.cores says, with
\* perCore[i].core = i; a load query and a cpu-info query that disagree on
\* the core count make the collection fail instead.
C11_PerCoreMatchesCores ==
    \A s \in Snapshots :
        /\ Len(s.perCore) = s.cpu.cores
        /\ \A i \in 1..Len(s.perCore) : s.perCore[i].core = i - 1

\* ----------------------------------------------------------------- C12
\* The percentages of a snapshot.
Percentages(s) ==
    {s.usage.total, s.usage.user, s.usage.system, s.usage.idle}
    \cup {s.perCore[i].load : i \in 1..Len(s.perCore)}

\* C12: collectCPUStats fails whenever the host query returns malformed
\* data, so no snapshot the program holds carries a negative (or missing)
\* percentage.
C12_NoMalformedSnapshot ==
    \A s \in Snapshots :
        /\ \A p \in Percentages(s) : p >= 0
        /\ \A i \in 1..Len(s.perCore) : "load" \in DOMAIN s.perCore[i]

\* The part of C12 the code keeps: a missing percentage fails the collection.
MissingFails ==
    [][\A r \in Cycles :
          (runs[r].pc = "cpu" /\ ToFixedThrows(runs[r].load) /\ runs'[r].pc # "cpu")
              => /\ runs'[r].outcome = "collectFailed"
                 /\ cpuStats' = cpuStats]_vars

\* ----------------------------------------------------------------- C13
\* C13: the interval handed to setInterval is always an integer >= 1,
\* whatever INTERVAL_MS is set to (unset, 0, negative, non-numeric): it is
\* clamped to a minimum of 1 and is 10000 when the variable is unset.
C13_IntervalAtLeastOne ==
    timerArmed =>
        /\ ~INTERVAL_MS.nan
        /\ INTERVAL_MS.val >= 1
        /\ ~env.INTERVAL_MS.set => INTERVAL_MS.val = 10000

\* The part of C13 the code keeps: the default of an unset (or empty)
\* INTERVAL_MS.
DefaultInterval == ~Truthy(env.INTERVAL_MS) => INTERVAL_MS = Num(10000)

\* ----------------------------------------------------------------- C14
\* An invalid startup configuration: a port or an interval that is not a
\* number, or the HTTP variant without its target.
ConfigInvalid ==
    \/ INTERVAL_MS.nan
    \/ variant = "osc" /\ OSC_PORT.nan
    \/ variant = "http" /\ ~Truthy(TARGET_URL)

\* C14: with an invalid startup configuration the process exits before the
\* first cycle: App is never rendered and no collect or send ever runs.
C14_InvalidConfigIsFatal ==
    ConfigInvalid =>
        /\ proc \in {"starting", "exited"}
        /\ ~effectRan
        /\ started = 0
        /\ batch.run = 0

\* The part of C14 the code keeps: the HTTP variant does not start without
\* TARGET_URL.
MissingTargetIsFatal ==
    (variant = "http" /\ ~Truthy(TARGET_URL)) =>
        (proc \in {"starting", "exited"} /\ ~effectRan /\ started = 0)

\* ----------------------------------------------------------------- C15
\* The step in which the port emits a pending 'error' event.
PortErrorEmitted == pendingErrors' < pendingErrors

\* C15: no recoverable error ends the process -- a step in which a cycle
\* fails (collection or send) or the port emits 'error' leaves the process
\* running and the interval as it was; the process leaves "running" only in
\* the signal handler, and the interval is cancelled only by the cleanup.
C15_ErrorsDoNotTerminate ==
    [][/\ (PortErrorEmitted \/ \E r \in Cycles : CycleFails(r)) =>
             /\ proc' = "running"
             /\ timerArmed' = timerArmed
       /\ proc' # proc => Shutdown
       /\ (timerArmed /\ ~timerArmed') => (Cleanup \/ Shutdown)]_vars

C15_Witness ==
    /\ runs[1].outcome = "collectFailed"
    /\ batch.run = 2
    /\ batch.eventAt > 0
    /\ pendingErrors = 0
    /\ proc = "running"
    /\ timerArmed

\* ----------------------------------------------------------------- C16
\* C16: no error is dropped -- when the port reports a socket error through
\* its 'error' event while the component is mounted, the status on display
\* becomes the ERROR result with the error's description, as it does for a
\* collection error and for a send that throws.
C16_ErrorsReachStatus ==
    [][/\ (PortErrorEmitted /\ isMounted) =>
             /\ lastSend'.status = "ERROR"
             /\ lastSend'.error # ""
       /\ \A r \in Cycles : (CycleFails(r) /\ isMounted) =>
             /\ lastSend'.status = "ERROR"
             /\ lastSend'.error # ""]_vars

\* The part of C16 the code keeps: errors that are thrown or rejected inside
\* monitor reach lastSend.
ThrownErrorsReachStatus ==
    [][\A r \in Cycles : (CycleFails(r) /\ isMounted) =>
             /\ lastSend'.status = "ERROR"
             /\ lastSend'.error # ""]_vars

\* ----------------------------------------------------------------- C17
\* A cycle has completed: it collected a snapshot and handed it to the
\* sinks.
CycleCompleted == \E r \in Cycles : runs[r].outcome = "sent"

\* C17: a GET answered before any cycle has completed gets 503 and the
\* "No data available yet" body; a GET answered after gets 200 and the
\* name/value array of the most recent snapshot -- the one on display while
\* the component is mounted, and pair by pair the messages of the latest OSC
\* batch -- wherever the cycles in flight are.
C17_PullEndpoint ==
    [][(httpResponse = NoResponse /\ httpResponse' # NoResponse) =>
          IF ~CycleCompleted
          THEN /\ httpResponse'.status = 503
               /\ httpResponse'.error = "No data available yet"
               /\ httpResponse'.body = << >>
          ELSE /\ httpResponse'.status = 200
               /\ httpResponse'.error = ""
               /\ isMounted => httpResponse'.body = StatsBody(cpuStats)
               /\ batch.thrownAt = 0 =>
                    /\ Len(httpResponse'.body) = Len(batch.issued)
                    /\ \A i \in 1..Len(batch.issued) :
                          /\ httpResponse'.body[i].name = batch.issued[i].address
                          /\ httpResponse'.body[i].core = batch.issued[i].core
                          /\ httpResponse'.body[i].num = batch.issued[i].num
                          /\ httpResponse'.body[i].str = batch.issued[i].str]_vars

C17_Witness ==
    /\ httpResponse.status = 200
    /\ Len(httpResponse.body) = 9
    /\ httpResponse.body = StatsBody(batch.stats)
    /\ batch.run = 1
    /\ \E r \in Cycles : InFlight(r)

\* ----------------------------------------------------------------- C18
\* C18: every sendStats call completes with a SendResult -- a cycle waiting
\* for its post is eventually done (or the process has exited), and a post
\* that timed out is a failure result.
C18_SendCompletes ==
    /\ [](~sendStatsHTTP("timeout", Date).result.success)
    /\ \A r \in Cycles :
          (runs[r].pc = "post") ~> (runs[r].pc = "done" \/ proc = "exited")

C18_Witness ==
    /\ variant = "http"
    /\ batch.run # 0
    /\ runs[batch.run].pc = "done"
    /\ ~batch.result.success
    /\ batch.result.error = "Network error - Unable to reach target"

\* ----------------------------------------------------------------- C19
\* C19: once the effect cleanup has run (unmount, shutdown), the result of a
\* cycle still in flight is discarded: no step changes cpuStats, lastSend or
\* isLoading any more.
C19_DiscardAfterUnmount ==
    [][(effectRan /\ ~isMounted) =>
          /\ cpuStats' = cpuStats
          /\ lastSend' = lastSend
          /\ isLoading' = isLoading]_vars

\* A cycle collected and sent after the cleanup, and nothing of it shows.
C19_Witness ==
    /\ effectRan /\ ~isMounted
    /\ batch.run # 0
    /\ runs[batch.run].pc = "done"
    /\ cpuStats = Null
    /\ lastSend = Initializing

\* ----------------------------------------------------------------- C20
\* C20: the snapshot is absent from process start until the first cycle
\* completes -- cpuStats is never set while the first cycle is in flight.
C20_AbsentUntilFirstCycleDone ==
    cpuStats # Null => runs[1].pc = "done"

\* Cycle r has collected its snapshot: it is sending or has sent.
Collected(r) == runs[r].pc = "post" \/ runs[r].outcome \in {"sent", "sendThrew"}

\* C20, amended: the snapshot is absent from process start until the
\* collection of some cycle succeeds; from then on it is set, also while
\* that cycle is still sending.
C20_AbsentUntilFirstCollect ==
    /\ ~effectRan => cpuStats = Null
    /\ cpuStats # Null => \E r \in Cycles : Collected(r)

\* The snapshot is on display while the first cycle is still posting it.
C20_Witness ==
    /\ cpuStats # Null
    /\ started = 1
    /\ runs[1].pc = "post"

\* ----------------------------------------------------------------- C21
\* C21: the first cycle starts in the effect itself, before any interval has
\* elapsed; every later cycle is started by a tick of the armed interval;
\* and no cycle has started while the OSC port is still uninitialised.
C21_FirstCycleImmediate ==
    [][/\ (~effectRan /\ effectRan') =>
             /\ started' = 1
             /\ runs'[1].pc = "load"
       /\ started' # started =>
             /\ started' = started + 1
             /\ runs'[started'].pc = "load"
             /\ IF started = 0 THEN UseEffect ELSE (timerArmed /\ Tick)
       /\ (variant = "osc" /\ started' > 0) =>
             /\ oscPort' # "null"
             /\ openCalls' = 1]_vars

C21_Witness ==
    /\ variant = "osc"
    /\ started = 2
    /\ runs[1].pc = "load"
    /\ runs[2].pc = "load"
    /\ oscPort = "opening"
    /\ timerArmed

\* ----------------------------------------------------------------- C22
\* The colour the README documents for a load (hundredths of a percent):
\* green below 50, yellow from 50 to 80, red above 80.
DocumentedColor(value) ==
    IF value > 8000 THEN "red"
    ELSE IF value >= 5000 THEN "yellow"
    ELSE "green"

\* The terminal's name for a tint of the menu bar.
TerminalColor(tint) == IF tint = "orange" THEN "yellow" ELSE tint

\* C22: whenever the menu bar shows a total, its tint is the colour the
\* terminal UI gives the same value, and both are the documented colour:
\* green below 50, yellow/orange from 50 to 80 inclusive, red only above 80.
C22_ColoursAsDocumented ==
    (menuBar.applied.kind = "stats" /\ menuBar.applied.total.some) =>
        LET value == menuBar.applied.total.val IN
        /\ TerminalColor(menuBar.tint) = getUsageColor(value)
        /\ getUsageColor(value) = DocumentedColor(value)

\* The part of C22 the code keeps: the two presentations agree on every
\* value, band for band.
C22_TerminalAndMenuAgree ==
    (menuBar.applied.kind = "stats" /\ menuBar.applied.total.some) =>
        TerminalColor(menuBar.tint) = getUsageColor(menuBar.applied.total.val)

\* ----------------------------------------------------------------- C23
\* The previous run of service.sh was an uninstall that exited with 0.
AfterUninstall == service.last = [cmd |-> "uninstall", exit |-> 0]

HasWritten(r) == runs[r].pc \in {"post", "done"}

\* C24: what is shown is always from the most recently started cycle -- a
\* cycle never writes cpuStats or lastSend after a cycle that started later
\* than it has written them.
C24_LatestCycleWins ==
    [][\A r \in Cycles :
         (isMounted /\ runs[r].pc # runs'[r].pc /\ runs'[r].pc \in {"post", "done"}) =>
            \A later \in Cycles : later > r => ~HasWritten(later)]_vars

\* ----------------------------------------------------------------- C25
\* What a failed collection must not touch: the port, the interval, the
\* messages sent and the other cycles' bookkeeping.
CollectFrame == <<batch, pendingErrors, oscPort, openCalls, closeCalls,
                  isMounted, timerArmed, started, proc>>

\* C25: in the step where collectCPUStats of a cycle fails, cpuStats keeps
\* the value it had -- the snapshot of the last successful collection, or
\* null -- and lastSend is the only state that changes.
C25_OnlyLastSendChanges ==
    [][\A r \in Cycles : CollectFails(r) =>
          /\ cpuStats' = cpuStats
          /\ isLoading' = isLoading
          /\ UNCHANGED CollectFrame]_vars

\* C25 as the code has it: the snapshot is kept, and besides lastSend the
\* catch block also clears the loading flag; after an unmount it writes
\* neither.
C25_SnapshotKept ==
    [][\A r \in Cycles : CollectFails(r) =>
          /\ cpuStats' = cpuStats
          /\ UNCHANGED CollectFrame
          /\ IF isMounted
             THEN /\ lastSend' \in {ErrorResult(msg, Date) : msg \in CollectErrors}
                  /\ isLoading' = FALSE
             ELSE UNCHANGED <<lastSend, isLoading>>]_vars

\* A collection has failed after an earlier one succeeded: the earlier
\* snapshot is still stored next to the collection error.
C25_Witness ==
    /\ \E r \in Cycles : runs[r].outcome = "collectFailed"
    /\ \E r \in Cycles : runs[r].outcome = "sent"
    /\ cpuStats # Null
    /\ lastSend.error \in CollectErrors
    /\ ~isLoading

\* ----------------------------------------------------------------- C26
\* The step in which cycle r runs the batch of sendStats and calls
\* oscPort.send at least once.
Sends(r) ==
    /\ variant = "osc"
    /\ runs[r].pc = "cpu"
    /\ batch'.run = r
    /\ batch'.issued # << >>

\* C26: no OSC message is sent before the UDP port is ready -- no cycle
\* calls oscPort.send while the port opened by initializeOSC has not yet
\* emitted 'ready'.
C26_NoSendBeforeReady ==
    [][\A r \in Cycles : Sends(r) => oscPort # "opening"]_vars

\* ----------------------------------------------------------------- C27
\* C27: no OSC message is sent after the port was closed -- a cycle whose
\* collection finishes after the cleanup closed oscPort does not call
\* oscPort.send.
C27_NoSendAfterClose ==
    [][\A r \in Cycles : Sends(r) => oscPort # "closed"]_vars

\* ----------------------------------------------------------------- C28
\* A SendResult a cycle produces: success goes with status OK and no error,
\* failure with status ERROR and an error.
WellFormed(res) ==
    /\ res.success <=> (res.status = "OK" /\ res.error = "")
    /\ ~res.success <=> (res.status = "ERROR" /\ res.error # "")

\* Cycle r finishes in this step.
Finishes(r) == InFlight(r) /\ ~InFlight(r)'

\* C28: whatever a step stores in lastSend is well-formed or is the initial
\* placeholder; once lastSend has left the placeholder it never returns to
\* it, and it leaves it when a cycle finishes (lastSend is state of the
\* mounted component).
C28_LastSendWellFormed ==
    [][/\ lastSend' = Initializing \/ WellFormed(lastSend')
       /\ lastSend # Initializing => lastSend' # Initializing
       /\ \A r \in Cycles : (Finishes(r) /\ isMounted) => lastSend' # Initializing]_vars

\* Every cycle has finished, one with a failed collection and one with a
\* successful batch, and the result on display is the successful one.
C28_Witness ==
    /\ isMounted
    /\ \A r \in Cycles : runs[r].pc = "done"
    /\ \E r \in Cycles : runs[r].outcome = "collectFailed"
    /\ lastSend.success
    /\ lastSend.status = "OK"
    /\ lastSend.error = ""

\* ----------------------------------------------------------------- C29
\* The result of the fetch whose block ran last.
LastFetch == menuBar.applied.from

\* The numeric /cpu/usage/total entries of a body.
Totals(items) == {i \in 1..Len(items) : IsTotal(items[i]) /\ IsDouble(items[i])}

\* The title C29 gives a completed fetch.
ExpectedTitle(result) ==
    IF result.error \/ ~result.isArray THEN Title("?", 0)
    ELSE IF Totals(result.items) = {} THEN Title("--", 0)
    ELSE Title("pct", Rounded(result.items[CHOOSE i \in Totals(result.items) : TRUE].num))

\* The per-core loads of a fetch.
CoresOf(result) ==
    IF result.error \/ ~result.isArray THEN {}
    ELSE {[core |-> result.items[i].core, load |-> result.items[i].num] :
            i \in {j \in 1..Len(result.items) :
                     IsCoreLoad(result.items[j]) /\ IsDouble(result.items[j])}}

\* The title is the one of the fetch that completed last.
TitleReflectsFetch ==
    menuBar.applied.kind # "none" => menuBar.title = ExpectedTitle(LastFetch)

\* The per-core entries of the menu are in ascending core index.
MenuAscending ==
    \A i, j \in 1..Len(menuBar.menu.cores) :
        i < j => menuBar.menu.cores[i].core < menuBar.menu.cores[j].core

\* The per-core entries of the menu are those of the fetch the title is
\* from.
MenuFromSameFetch ==
    menuBar.applied.kind # "none" =>
        {menuBar.menu.cores[i] : i \in 1..Len(menuBar.menu.cores)} = CoresOf(LastFetch)

\* C29: after each completed fetch the title reflects that fetch ('CPU n%',
\* 'CPU --' or 'CPU ?'), and the per-core entries of the menu are in
\* ascending core index and come from the same fetch as the title.
C29_MenuReflectsFetch ==
    /\ TitleReflectsFetch
    /\ MenuAscending
    /\ MenuFromSameFetch

\* ----------------------------------------------------------------- C30
\* The body is a CPUStats object / a body the handler cannot process.
IsCPUStats(text) == text = <<"{", "cpu", "usage", "}">>
Unprocessable(text) ==
    \/ text = << >>
    \/ text[1] # "{"
    \/ text[Len(text)] # "}"
    \/ \E key \in {"cpu", "usage"} : \A i \in 1..Len(text) : text[i] # key

\* C30: every request has at most one response, and exactly one once it is
\* complete: 404 for anything but a POST to /cpu-stats, 200 ok/received for
\* a POST to /cpu-stats with a CPUStats body, 400 Invalid JSON for one whose
\* body cannot be processed.
C30_ExactlyOneResponse ==
    \A i \in 1..Len(testServer.reqs) :
        LET req == testServer.reqs[i] IN
        /\ Len(req.responses) <= 1
        /\ req.state = "ended" => Len(req.responses) = 1
        /\ req.responses # << >> =>
             IF req.method # "POST" \/ req.url # "/cpu-stats"
             THEN req.responses[1] = NotFound
             ELSE /\ req.responses[1] \in {OkReceived, InvalidJSON}
                  /\ IsCPUStats(req.text) => req.responses[1] = OkReceived
                  /\ Unprocessable(req.text) => req.responses[1] = InvalidJSON

\* Two complete requests, a POST of a CPUStats object that arrived in more
\* than one chunk and a POST of a body without cpu, answered 200 and 400.
C30_Witness ==
    /\ Len(testServer.reqs) = 2
    /\ \A i \in 1..2 : testServer.reqs[i].state = "ended"
    /\ \E i \in 1..2 : /\ IsCPUStats(testServer.reqs[i].text)
                       /\ testServer.reqs[i].responses = << OkReceived >>
    /\ \E i \in 1..2 : /\ testServer.reqs[i].text = <<"{", "usage", "}">>
                       /\ testServer.reqs[i].responses = << InvalidJSON >>

====
